---- MODULE Spec2Model ----
(***************************************************************************)
(* Model of gallium_printing_1.2.1.py: the Device wrapper (speed profiles, *)
(* motion, syringe), the compound routines make_dots and approach, the     *)
(* command dispatcher handle_command and the ESC emergency-stop hotkey.    *)
(*                                                                         *)
(* Numbers are in tenths of the unit the source writes (0.2 mm/s is 2,     *)
(* 1 mm/s is 10, 2 mm is 20), so that every quantity is an integer.        *)
(* Python objects that are shared by reference (the profile dicts) live in *)
(* a per-device heap and are named by an object id; None is id 0.          *)
(*                                                                         *)
(* SpecDevice drives the methods of class Device against a recording axis. *)
(* Spec is the session: it starts where main's command loop starts, with   *)
(* the registry and the ESC hotkey as main sets them up, and runs the       *)
(* dispatcher, the routines, the hardware and the hotkey's thread.         *)
(* SpecMain is main's startup: discovery, the labelling loop, the check   *)
(* for missing devices, the hotkey's registration and the homing.          *)
(***************************************************************************)
EXTENDS Integers, Sequences, FiniteSets, TLC

\* ---------------------------------------------------------------- constants

\* The labels of SERIAL_TO_LABEL: the four expected axes.
Labels == {"stage_x", "stage_y", "stage_z", "stage_s"}

SERIAL_TO_LABEL ==
    (38205 :> "stage_z") @@ (38209 :> "stage_y") @@ (38207 :> "stage_x")
        @@ (38206 :> "stage_s")

\* Python's None, as an object id.
None == 0

\* Units of zaber_motion the source names.
LENGTH_MILLIMETRES == "LENGTH_MILLIMETRES"
LENGTH_MICROMETRES == "LENGTH_MICROMETRES"
VELOCITY_MILLIMETRES_PER_SECOND == "VELOCITY_MILLIMETRES_PER_SECOND"

\* default_profile: velocity 1 mm/s (in tenths), acceleration 0.
DefaultVel == 10
DefaultAcc == 0

\* limit.min / limit.max as read from the device at construction.
LimitMin == 0
LimitMax == 500

\* ------------------------------------------------------------------- bounds

\* How many Device methods the harness of SpecDevice calls in one run.
MaxOps == 3

\* How many lines the operator types, key events one approach reads, and
\* ESC presses, in one run of Spec.
MaxCmds == 2
MaxKeys == 2
MaxEsc == 1

\* The lines the operator types: a line is a sequence of words and blanks.
Blank == " "
AxisWords == {"x", "y", "z", "s"}
SomeAxisWords == {"x", "z", "s"}
Lines ==
    {<<>>, <<Blank>>, <<"exit">>, <<Blank, "EXIT", Blank>>, <<"help">>,
     <<"bogus", "x">>}
    \cup {<<"move", a, v>> : a \in AxisWords, v \in {"1", "-1"}}
    \cup {<<"move", "abs", a, "2">> : a \in AxisWords}
    \cup {<<"move", "x", "1,5">>, <<"move", "abs", "x">>, <<"move", "q", "1">>}
    \cup {<<"move", "abs", "x", "1,5">>, <<"speed", "x", "1,5">>,
          <<"approach", "x", "1,5">>, <<"makedots", "1,5", "0.5", "1">>,
          <<"makedots", "1", "1,5", "1">>, <<"makedots", "1", "0.5", "1,5">>,
          <<"makedots", "0.5", "0.5", "1">>}
    \cup {<<"syringe", w, "1,5">> : w \in {"dispense", "retract", "speed"}}
    \cup {<<"home", a>> : a \in SomeAxisWords \cup {"all"}}
    \cup {<<"sethome", a>> : a \in SomeAxisWords}
    \cup {<<"speed", a, "0.5">> : a \in SomeAxisWords}
    \cup {<<"getspeed", a>> : a \in SomeAxisWords}
    \cup {<<"syringe", w, v>> : w \in {"dispense", "retract", "speed"},
                               v \in {"1", "-1"}}
    \cup {<<"approach", a, "0.5">> : a \in SomeAxisWords}
    \cup {<<"makedots", n, "0.5", "1">> : n \in {"-1", "0", "1", "2", "3"}}

\* Serial numbers of attached devices that SERIAL_TO_LABEL does not list.
OtherSerials == {11111, 22222}

\* The inputs the harness and the operator draw from.
DefNames == {"default", "fast"}            \* names given to set_profile
UseNames == {"default", "fast", "slow"}    \* names given to use_profile
DefUnits == {LENGTH_MILLIMETRES, VELOCITY_MILLIMETRES_PER_SECOND}
DefVels == {5}
DefAccs == {3}
Speeds == {2}
Amounts == {-10, 0, 10}

\* Object ids of the profile dicts of one device: one per name, the profile
\* that is active but no longer in the mapping, and the one being created.
ObjIds == 1..(Cardinality(DefNames) + 2)

VARIABLES
    stages,     \* the stage registry: label -> Device object
    calls,      \* hardware calls issued by the operation in progress
    last,       \* the Device method or command executed last, and its outcome
    nops,       \* number of Device methods called by the harness
    pc,         \* where the main thread is
    frame,      \* the locals of the routine the main thread is in
    waiting,    \* the axis whose blocking call the main thread is inside
    motion,     \* per axis: "idle", or the routine that set it in motion
    accepted,   \* number of lines input() has returned to the command loop
    hotkey,     \* the object the ESC hotkey's closure holds as `connection`
    esc,        \* Emergency-Stop since the last accepted line
    nesc        \* number of ESC presses

devVars == <<stages, calls, last, nops>>
sessVars == <<pc, frame, waiting, motion, accepted, hotkey, esc, nesc>>
vars == <<stages, calls, last, nops, pc, frame, waiting, motion, accepted,
          hotkey, esc, nesc>>

\* -------------------------------------------------------------- Device class

\* A call on the zaber axis (or connection) of a device.
Call(axis, fn, arg, unit, wait, vel, acc, vunit) ==
    [axis |-> axis, fn |-> fn, arg |-> arg, unit |-> unit, wait |-> wait,
     vel |-> vel, acc |-> acc, vunit |-> vunit]

\* The outcome of a Device method: the device after it, the hardware calls it
\* issued, the exception it raised ("none" if it returned) and its value.
Result(dev, issued, exc, ret) ==
    [dev |-> dev, calls |-> issued, exc |-> exc, ret |-> ret]

Abs(n) == IF n < 0 THEN -n ELSE n

\* The profile dicts a device still refers to; the others are reclaimed.
Referenced(dev) ==
    {dev.speed_profiles[n] : n \in DOMAIN dev.speed_profiles}
        \cup ({dev.active_profile} \ {None})

Collect(dev) ==
    [dev EXCEPT !.heap = [o \in Referenced(dev) |-> dev.heap[o]]]

\* The id of a newly created dict: one that names no live dict.
FreshObj(dev) ==
    CHOOSE o \in ObjIds : o \notin DOMAIN dev.heap
                          /\ \A p \in ObjIds \ DOMAIN dev.heap : o <= p

\* `not self.active_profile`: None is falsy; a profile dict always has its
\* three keys, so it is truthy.
Falsy(ref) == ref = None

\* Mutant of default_profile: the default profile is created but not activated.
default_profile_not_activated(dev) ==
    IF "default" \notin DOMAIN dev.speed_profiles
    THEN LET o == FreshObj(dev)
         IN [dev EXCEPT
               !.heap = (o :> [vel |-> DefaultVel, acc |-> DefaultAcc,
                               unit |-> VELOCITY_MILLIMETRES_PER_SECOND]) @@ @,
               !.speed_profiles = ("default" :> o) @@ @]
    ELSE dev

default_profile(dev) ==
    LET d1 == IF "default" \notin DOMAIN dev.speed_profiles
              THEN LET o == FreshObj(dev)
                   IN [dev EXCEPT
                         !.heap = (o :> [vel |-> DefaultVel, acc |-> DefaultAcc,
                                         unit |-> VELOCITY_MILLIMETRES_PER_SECOND]) @@ @,
                         !.speed_profiles = ("default" :> o) @@ @]
              ELSE dev
    IN IF Falsy(d1.active_profile)
       THEN [d1 EXCEPT !.active_profile = d1.speed_profiles["default"]]
       ELSE d1

DeviceInit(label) ==
    default_profile([label |-> label,
                     min_pos |-> LimitMin,
                     max_pos |-> LimitMax,
                     speed_profiles |-> <<>>,
                     active_profile |-> None,
                     heap |-> <<>>])

set_profile(dev, name, velocity, acceleration, unit) ==
    LET o == FreshObj(dev)
        d1 == [dev EXCEPT
                 !.heap = (o :> [vel |-> velocity, acc |-> acceleration,
                                 unit |-> unit]) @@ @,
                 !.speed_profiles = (name :> o) @@ @]
    IN Result(Collect(d1), <<>>, "none", None)

\* Mutant of use_profile: an unknown name silently selects "default".
use_profile_falls_back(dev, name) ==
    IF name \notin DOMAIN dev.speed_profiles
    THEN Result(Collect([dev EXCEPT
                           !.active_profile = dev.speed_profiles["default"]]),
                <<>>, "none", None)
    ELSE Result(Collect([dev EXCEPT !.active_profile = dev.speed_profiles[name]]),
                <<>>, "none", None)

use_profile(dev, name) ==
    IF name \notin DOMAIN dev.speed_profiles
    THEN Result(dev, <<>>, "ValueError: speed profile not found", None)
    ELSE Result(Collect([dev EXCEPT !.active_profile = dev.speed_profiles[name]]),
                <<>>, "none", None)

\* Mutant of set_speed: only the velocity is written.
set_speed_velocity_only(dev, mm_per_s) ==
    LET d1 == IF Falsy(dev.active_profile) THEN default_profile(dev) ELSE dev
        o  == d1.active_profile
    IN Result([d1 EXCEPT !.heap[o].vel = mm_per_s], <<>>, "none", mm_per_s)

set_speed(dev, mm_per_s) ==
    LET d1 == IF Falsy(dev.active_profile) THEN default_profile(dev) ELSE dev
        o  == d1.active_profile
    IN Result([d1 EXCEPT !.heap[o] = [vel |-> mm_per_s, acc |-> 0,
                                      unit |-> VELOCITY_MILLIMETRES_PER_SECOND]],
              <<>>, "none", mm_per_s)

get_speed(dev) ==
    IF Falsy(dev.active_profile)
    THEN Result(dev, <<>>, "none", 0)
    ELSE Result(dev, <<>>, "none", dev.heap[dev.active_profile].vel)

\* axis.move_velocity(prof["vel"], unit, acceleration, acceleration_unit)
MoveVelocity(dev, prof) ==
    Call(dev.label, "move_velocity", prof.vel, prof.unit, FALSE,
         prof.vel, prof.acc, prof.unit)

move_to(dev, position_native, wait) ==
    IF Falsy(dev.active_profile)
    THEN Result(dev, <<>>, "RuntimeError: no active speed profile", None)
    ELSE LET prof == dev.heap[dev.active_profile]
         IN Result(dev,
                   <<MoveVelocity(dev, prof),
                     Call(dev.label, "move_absolute", position_native,
                          LENGTH_MILLIMETRES, wait, prof.vel, prof.acc, prof.unit)>>,
                   "none", None)

move_abs(dev, mm, wait) == move_to(dev, mm, wait)

\* Mutant of move_rel: the relative move is issued alone.
move_rel_without_velocity(dev, mm, wait) ==
    IF dev.active_profile = None
    THEN Result(dev, <<>>, "TypeError: NoneType is not subscriptable", None)
    ELSE Result(dev,
                <<Call(dev.label, "move_relative", mm, LENGTH_MILLIMETRES,
                       wait, 0, 0, "none")>>,
                "none", None)

move_rel(dev, mm, wait) ==
    IF dev.active_profile = None
    THEN Result(dev, <<>>, "TypeError: NoneType is not subscriptable", None)
    ELSE LET prof == dev.heap[dev.active_profile]
         IN Result(dev,
                   <<MoveVelocity(dev, prof),
                     Call(dev.label, "move_relative", mm, LENGTH_MILLIMETRES,
                          wait, 0, 0, "none")>>,
                   "none", None)

home(dev) ==
    Result(dev, <<Call(dev.label, "home", 0, "none", TRUE, 0, 0, "none")>>,
           "none", None)

stop(dev) ==
    Result(dev, <<Call(dev.label, "stop", 0, "none", TRUE, 0, 0, "none")>>,
           "none", None)

set_home_here(dev) ==
    Result(dev, <<Call(dev.label, "set_home", 0, "none", FALSE, 0, 0, "none")>>,
           "none", None)

is_syringe(dev) == dev.label = "stage_s"

\* Mutant of syringe_dispense: the profile check comes first and the
\* device-type check is left to the caller.
syringe_dispense_unguarded(dev, mm, wait) ==
    IF Falsy(dev.active_profile)
    THEN Result(dev, <<>>, "RuntimeError: no active speed profile", None)
    ELSE LET prof == dev.heap[dev.active_profile]
         IN Result(dev,
                   <<MoveVelocity(dev, prof),
                     Call(dev.label, "move_relative", mm, LENGTH_MICROMETRES,
                          wait, 0, 0, "none")>>,
                   "none", None)

syringe_dispense(dev, mm, wait) ==
    IF ~is_syringe(dev)
    THEN Result(dev, <<>>, "RuntimeError: not a syringe device", None)
    ELSE IF Falsy(dev.active_profile)
    THEN Result(dev, <<>>, "RuntimeError: no active speed profile", None)
    ELSE LET prof == dev.heap[dev.active_profile]
         IN Result(dev,
                   <<MoveVelocity(dev, prof),
                     Call(dev.label, "move_relative", mm, LENGTH_MICROMETRES,
                          wait, 0, 0, "none")>>,
                   "none", None)

\* Mutant of syringe_retract: the amount is negated, not forced negative.
syringe_retract_negates(dev, mm, wait) ==
    IF dev.label # "stage_s"
    THEN Result(dev, <<>>, "RuntimeError: not a syringe device", None)
    ELSE IF Falsy(dev.active_profile)
    THEN Result(dev, <<>>, "RuntimeError: no active speed profile", None)
    ELSE LET prof == dev.heap[dev.active_profile]
         IN Result(dev,
                   <<MoveVelocity(dev, prof),
                     Call(dev.label, "move_relative", -mm, LENGTH_MILLIMETRES,
                          wait, 0, 0, "none")>>,
                   "none", None)

syringe_retract(dev, mm, wait) ==
    IF ~is_syringe(dev)
    THEN Result(dev, <<>>, "RuntimeError: not a syringe device", None)
    ELSE IF Falsy(dev.active_profile)
    THEN Result(dev, <<>>, "RuntimeError: no active speed profile", None)
    ELSE LET prof == dev.heap[dev.active_profile]
         IN Result(dev,
                   <<MoveVelocity(dev, prof),
                     Call(dev.label, "move_relative", -Abs(mm), LENGTH_MILLIMETRES,
                          wait, 0, 0, "none")>>,
                   "none", None)

\* --------------------------------------------------------- emergency stop

\* Connection.stop_all exists; a dict (the stage registry) has no such method.
HasStopAll(obj) == obj = "conn"

\* emergency_stop(connection): the calls issued and the exception raised in
\* the hotkey's thread.
emergency_stop(connection) ==
    IF HasStopAll(connection)
    THEN [calls |-> <<Call("all", "stop_all", 0, "none", TRUE, 0, 0, "none")>>,
          exc |-> "none"]
    ELSE [calls |-> <<>>,
          exc |-> "AttributeError: no attribute stop_all"]

\* setup_escape_listener(connection) binds ESC to a closure over `connection`.
setup_escape_listener(connection) == connection

\* What main passes to setup_escape_listener.
ListenerArgument == "stages"

\* ----------------------------------------------------------------- hardware

\* The calls that set an axis in motion.
Moves(c) == c.fn \in {"move_velocity", "move_relative", "move_absolute", "home"}

\* The motion of the axes after the calls `issued`, made by `owner`.
Drive(mo, issued, owner) ==
    [a \in Labels |->
        IF \E k \in 1..Len(issued) : issued[k].fn = "stop_all" THEN "idle"
        ELSE IF \E k \in 1..Len(issued) : issued[k].axis = a /\ Moves(issued[k])
        THEN owner
        ELSE IF \E k \in 1..Len(issued) : issued[k].axis = a /\ issued[k].fn = "stop"
        THEN "idle"
        ELSE mo[a]]

\* The axis the caller of `issued` waits on until it is idle.
WaitsOn(issued) ==
    IF \E k \in 1..Len(issued) : issued[k].wait /\ Moves(issued[k])
    THEN issued[Len(issued)].axis
    ELSE "none"

\* ------------------------------------------------------------------ harness

\* What `last` records of an operation: the method, the device it was called
\* on and that device as it was before the call, the arguments, the exception.
Op(op, axis, pre, name, arg, exc) ==
    [op |-> op, axis |-> axis, pre |-> pre, name |-> name, arg |-> arg,
     exc |-> exc, line |-> <<>>]

\* What `last` records of a command: its verb, the registry before it, the
\* line, and the exception handle_command raised.
Cmd(verb, pre, line, exc) ==
    [op |-> verb, axis |-> "none", pre |-> pre, name |-> "", arg |-> 0,
     exc |-> exc, line |-> line]

\* The events keyboard.read_event() returns to approach.
KeyEvents == [event_type : {"down", "up"}, name : {"w", "s", "x", "a"}]
NoEvent == [event_type |-> "none", name |-> "none"]

\* No routine is running.
NoFrame ==
    [fn |-> "none", dots |-> 0, spacing |-> 0, dispense_amount |-> 0, i |-> 0,
     stage |-> "none", step_mm |-> 0, keys |-> 0, event |-> NoEvent,
     todo |-> {}, devices |-> {}]

\* No Emergency-Stop since the last accepted line.
NoEsc ==
    [triggered |-> FALSE, blocked |-> FALSE, stopped |-> FALSE, routine |-> FALSE]

Init ==
    /\ stages = [l \in Labels |-> DeviceInit(l)]
    /\ calls = <<>>
    /\ last = Op("init", "none", <<>>, "", 0, "none")
    /\ nops = 0
    /\ pc = "prompt"
    /\ frame = NoFrame
    /\ waiting = "none"
    /\ motion = [l \in Labels |-> "idle"]
    /\ accepted = 0
    /\ hotkey = setup_escape_listener(ListenerArgument)
    /\ esc = NoEsc
    /\ nesc = 0

\* The harness calls method `op` of stages[a], which ends as `r`.
Invoke(a, op, name, arg, r) ==
    /\ nops < MaxOps
    /\ nops' = nops + 1
    /\ stages' = [stages EXCEPT ![a] = r.dev]
    /\ calls' = r.calls
    /\ last' = Op(op, a, stages[a], name, arg, r.exc)
    /\ UNCHANGED sessVars

CallSetProfile ==
    \E a \in Labels, n \in DefNames, v \in DefVels, c \in DefAccs, u \in DefUnits :
        Invoke(a, "set_profile", n, v, set_profile(stages[a], n, v, c, u))

CallUseProfile ==
    \E a \in Labels, n \in UseNames :
        Invoke(a, "use_profile", n, 0, use_profile(stages[a], n))

CallSetSpeed ==
    \E a \in Labels, v \in Speeds :
        Invoke(a, "set_speed", "", v, set_speed(stages[a], v))

CallGetSpeed ==
    \E a \in Labels :
        Invoke(a, "get_speed", "", get_speed(stages[a]).ret, get_speed(stages[a]))

CallMoveAbs ==
    \E a \in Labels, w \in BOOLEAN :
        Invoke(a, "move_abs", "", 10, move_abs(stages[a], 10, w))

CallMoveRel ==
    \E a \in Labels, w \in BOOLEAN :
        Invoke(a, "move_rel", "", 10, move_rel(stages[a], 10, w))

CallHome ==
    \E a \in Labels : Invoke(a, "home", "", 0, home(stages[a]))

CallStop ==
    \E a \in Labels : Invoke(a, "stop", "", 0, stop(stages[a]))

CallSetHomeHere ==
    \E a \in Labels : Invoke(a, "set_home_here", "", 0, set_home_here(stages[a]))

CallSyringeDispense ==
    \E a \in Labels, mm \in Amounts, w \in BOOLEAN :
        Invoke(a, "syringe_dispense", "", mm, syringe_dispense(stages[a], mm, w))

CallSyringeRetract ==
    \E a \in Labels, mm \in Amounts, w \in BOOLEAN :
        Invoke(a, "syringe_retract", "", mm, syringe_retract(stages[a], mm, w))

NextDevice ==
    \/ CallSetProfile
    \/ CallUseProfile
    \/ CallSetSpeed
    \/ CallGetSpeed
    \/ CallMoveAbs
    \/ CallMoveRel
    \/ CallHome
    \/ CallStop
    \/ CallSetHomeHere
    \/ CallSyringeDispense
    \/ CallSyringeRetract

SpecDevice == Init /\ [][NextDevice]_vars

\* ------------------------------------------------------------ command lines

\* str.split() keeps the words of a line.
IsWord(t) == t # Blank
split(line) == SelectSeq(line, IsWord)

\* str.lower() on the words in use.
lower(t) ==
    CASE t = "EXIT" -> "exit"
      [] OTHER -> t

\* float(): the literals in use and their values (in tenths); any other word
\* raises ValueError.
FloatTable ==
    ("0" :> 0) @@ ("0.5" :> 5) @@ ("1" :> 10) @@ ("-1" :> -10) @@ ("2" :> 20)
        @@ ("3" :> 30)

\* int(): the literals in use; "0.5" and other words raise ValueError.
IntTable == ("0" :> 0) @@ ("1" :> 1) @@ ("-1" :> -1) @@ ("2" :> 2) @@ ("3" :> 3)

\* f"stage_{axis}"
StageKey(axis) == "stage_" \o axis

\* make_dots: stage_x.set_speed(0.2), the z approach of 2 mm (in tenths).
DotsSpeed == 2
ZApproach == 20

\* The outcome of handle_command up to its first blocking call: the registry,
\* the hardware calls issued, the exception raised, the value returned, and
\* where the main thread goes on (the prompt, or inside a routine).
Ret(st, issued, exc, ret, goto, fr) ==
    [stages |-> st, calls |-> issued, exc |-> exc, ret |-> ret, goto |-> goto,
     frame |-> fr]

Return(st, ret) == Ret(st, <<>>, "none", ret, "prompt", NoFrame)

Raise(st, exc) == Ret(st, <<>>, exc, TRUE, "fatal", NoFrame)

\* A Device method called by a case of handle_command, which then returns True.
OnDevice(st, key, r) ==
    IF r.exc # "none"
    THEN Raise(st, r.exc)
    ELSE Ret([st EXCEPT ![key] = r.dev], r.calls, "none", TRUE, "prompt", NoFrame)

\* The head of make_dots' loop: the next dot, or the final home.
LoopHead(i, dots) == IF i < dots THEN "z_approach" ELSE "x_home"

\* make_dots up to its first blocking call.
make_dots(st, dots, spacing, dispense_amount) ==
    LET r == set_speed(st["stage_x"], DotsSpeed)
    IN Ret([st EXCEPT !["stage_x"] = r.dev], <<>>, "none", TRUE, LoopHead(0, dots),
           [NoFrame EXCEPT !.fn = "make_dots", !.dots = dots, !.spacing = spacing,
                           !.dispense_amount = dispense_amount, !.i = 0])

\* approach up to its first read_event.
approach(st, key, step_mm) ==
    Ret(st, <<>>, "none", TRUE, "approach",
        [NoFrame EXCEPT !.fn = "approach", !.stage = key, !.step_mm = step_mm])

\* Mutant of CaseMove: `move abs` is taken for a relative move.
CaseMove_abs_is_relative(p, st) ==
    IF Len(p) < 3 THEN Return(st, TRUE)
    ELSE IF p[2] = "abs"
    THEN IF Len(p) < 4 THEN Raise(st, "IndexError")
         ELSE IF p[4] \notin DOMAIN FloatTable THEN Raise(st, "ValueError")
         ELSE IF StageKey(p[3]) \notin DOMAIN st THEN Raise(st, "KeyError")
         ELSE OnDevice(st, StageKey(p[3]),
                       move_rel(st[StageKey(p[3])], FloatTable[p[4]], FALSE))
    ELSE IF p[3] \notin DOMAIN FloatTable THEN Raise(st, "ValueError")
         ELSE IF StageKey(p[2]) \notin DOMAIN st THEN Raise(st, "KeyError")
         ELSE OnDevice(st, StageKey(p[2]),
                       move_rel(st[StageKey(p[2])], FloatTable[p[3]], FALSE))

CaseMove(p, st) ==
    IF Len(p) < 3 THEN Return(st, TRUE)
    ELSE IF p[2] = "abs"
    THEN IF Len(p) < 4 THEN Raise(st, "IndexError")
         ELSE IF p[4] \notin DOMAIN FloatTable THEN Raise(st, "ValueError")
         ELSE IF StageKey(p[3]) \notin DOMAIN st THEN Raise(st, "KeyError")
         ELSE OnDevice(st, StageKey(p[3]),
                       move_abs(st[StageKey(p[3])], FloatTable[p[4]], FALSE))
    ELSE IF p[3] \notin DOMAIN FloatTable THEN Raise(st, "ValueError")
         ELSE IF StageKey(p[2]) \notin DOMAIN st THEN Raise(st, "KeyError")
         ELSE OnDevice(st, StageKey(p[2]),
                       move_rel(st[StageKey(p[2])], FloatTable[p[3]], FALSE))

\* Mutant of CaseHome: `home all` homes the three positioning stages only.
CaseHome_skips_syringe(p, st) ==
    IF Len(p) = 2 /\ p[2] = "all"
    THEN Ret(st, <<>>, "none", TRUE, "home_all",
             [NoFrame EXCEPT !.fn = "home_all", !.todo = DOMAIN st \ {"stage_s"}])
    ELSE IF Len(p) < 2 THEN Raise(st, "IndexError")
    ELSE IF StageKey(p[2]) \notin DOMAIN st THEN Raise(st, "KeyError")
    ELSE OnDevice(st, StageKey(p[2]), home(st[StageKey(p[2])]))

CaseHome(p, st) ==
    IF Len(p) = 2 /\ p[2] = "all"
    THEN Ret(st, <<>>, "none", TRUE, "home_all",
             [NoFrame EXCEPT !.fn = "home_all", !.todo = DOMAIN st])
    ELSE IF Len(p) < 2 THEN Raise(st, "IndexError")
    ELSE IF StageKey(p[2]) \notin DOMAIN st THEN Raise(st, "KeyError")
    ELSE OnDevice(st, StageKey(p[2]), home(st[StageKey(p[2])]))

CaseSethome(p, st) ==
    IF Len(p) < 2 THEN Raise(st, "IndexError")
    ELSE IF StageKey(p[2]) \notin DOMAIN st THEN Raise(st, "KeyError")
    ELSE OnDevice(st, StageKey(p[2]), home(st[StageKey(p[2])]))

\* Mutant of CaseSpeed: the speed is set on every axis of the registry.
CaseSpeed_sets_every_axis(p, st) ==
    IF Len(p) < 3 THEN Raise(st, "IndexError")
    ELSE IF p[3] \notin DOMAIN FloatTable THEN Raise(st, "ValueError")
    ELSE IF StageKey(p[2]) \notin DOMAIN st THEN Raise(st, "KeyError")
    ELSE Ret([l \in DOMAIN st |-> set_speed(st[l], FloatTable[p[3]]).dev],
             <<>>, "none", TRUE, "prompt", NoFrame)

\* Mutant of CaseSpeed: a value that is not a number is reported and the
\* loop goes on.
CaseSpeed_skips_malformed(p, st) ==
    IF Len(p) < 3 THEN Raise(st, "IndexError")
    ELSE IF p[3] \notin DOMAIN FloatTable THEN Return(st, TRUE)
    ELSE IF StageKey(p[2]) \notin DOMAIN st THEN Raise(st, "KeyError")
    ELSE OnDevice(st, StageKey(p[2]),
                  set_speed(st[StageKey(p[2])], FloatTable[p[3]]))

CaseSpeed(p, st) ==
    IF Len(p) < 3 THEN Raise(st, "IndexError")
    ELSE IF p[3] \notin DOMAIN FloatTable THEN Raise(st, "ValueError")
    ELSE IF StageKey(p[2]) \notin DOMAIN st THEN Raise(st, "KeyError")
    ELSE OnDevice(st, StageKey(p[2]),
                  set_speed(st[StageKey(p[2])], FloatTable[p[3]]))

CaseGetspeed(p, st) ==
    IF Len(p) < 2 THEN Raise(st, "IndexError")
    ELSE IF StageKey(p[2]) \notin DOMAIN st THEN Raise(st, "KeyError")
    ELSE OnDevice(st, StageKey(p[2]), get_speed(st[StageKey(p[2])]))

\* Mutant of CaseSyringe: dispense and retract wait for the axis to be idle.
CaseSyringe_waits(p, st) ==
    IF Len(p) < 3 THEN Return(st, TRUE)
    ELSE LET action == lower(p[2])
             dev == st["stage_s"]
         IN IF action \notin {"dispense", "retract", "speed"} THEN Return(st, TRUE)
            ELSE IF p[3] \notin DOMAIN FloatTable THEN Raise(st, "ValueError")
            ELSE IF action = "dispense"
            THEN OnDevice(st, "stage_s", syringe_dispense(dev, FloatTable[p[3]], TRUE))
            ELSE IF action = "retract"
            THEN OnDevice(st, "stage_s", syringe_retract(dev, FloatTable[p[3]], TRUE))
            ELSE OnDevice(st, "stage_s", set_speed(dev, FloatTable[p[3]]))

CaseSyringe(p, st) ==
    IF Len(p) < 3 THEN Return(st, TRUE)
    ELSE LET action == lower(p[2])
             dev == st["stage_s"]
         IN IF action \notin {"dispense", "retract", "speed"} THEN Return(st, TRUE)
            ELSE IF p[3] \notin DOMAIN FloatTable THEN Raise(st, "ValueError")
            ELSE IF action = "dispense"
            THEN OnDevice(st, "stage_s", syringe_dispense(dev, FloatTable[p[3]], FALSE))
            ELSE IF action = "retract"
            THEN OnDevice(st, "stage_s", syringe_retract(dev, FloatTable[p[3]], FALSE))
            ELSE OnDevice(st, "stage_s", set_speed(dev, FloatTable[p[3]]))

CaseApproach(p, st) ==
    IF Len(p) < 2 THEN Raise(st, "IndexError")
    ELSE IF StageKey(p[2]) \notin DOMAIN st THEN Raise(st, "KeyError")
    ELSE IF Len(p) < 3 THEN Raise(st, "IndexError")
    ELSE IF p[3] \notin DOMAIN FloatTable THEN Raise(st, "ValueError")
    ELSE approach(st, StageKey(p[2]), FloatTable[p[3]])

CaseMakedots(p, st) ==
    IF Len(p) < 2 THEN Raise(st, "IndexError")
    ELSE IF p[2] \notin DOMAIN IntTable THEN Raise(st, "ValueError")
    ELSE IF Len(p) < 3 THEN Raise(st, "IndexError")
    ELSE IF p[3] \notin DOMAIN FloatTable THEN Raise(st, "ValueError")
    ELSE IF Len(p) < 4 THEN Raise(st, "IndexError")
    ELSE IF p[4] \notin DOMAIN FloatTable THEN Raise(st, "ValueError")
    ELSE make_dots(st, IntTable[p[2]], FloatTable[p[3]], FloatTable[p[4]])

\* The verb handle_command matches on ("" for an empty line).
Verb(line) == IF split(line) = <<>> THEN "" ELSE lower(split(line)[1])

Vocabulary ==
    {"exit", "help", "move", "home", "sethome", "speed", "getspeed", "syringe",
     "approach", "makedots"}

handle_command(line, st) ==
    LET partcmd == split(line)
        cmd == Verb(line)
    IN IF partcmd = <<>> THEN Return(st, TRUE)
       ELSE CASE cmd = "exit" -> Return(st, FALSE)
              [] cmd = "help" -> Return(st, TRUE)
              [] cmd = "move" -> CaseMove(partcmd, st)
              [] cmd = "home" -> CaseHome(partcmd, st)
              [] cmd = "sethome" -> CaseSethome(partcmd, st)
              [] cmd = "speed" -> CaseSpeed(partcmd, st)
              [] cmd = "getspeed" -> CaseGetspeed(partcmd, st)
              [] cmd = "syringe" -> CaseSyringe(partcmd, st)
              [] cmd = "approach" -> CaseApproach(partcmd, st)
              [] cmd = "makedots" -> CaseMakedots(partcmd, st)
              [] OTHER -> Return(st, TRUE)

\* ------------------------------------------------------------ the session

\* The main thread is inside a blocking call whose axis is not idle yet.
Blocked == waiting # "none" /\ motion[waiting] # "idle"

\* ... and that call is a positional move.
BlockedInMove ==
    /\ Blocked
    /\ calls # <<>>
    /\ calls[Len(calls)].fn \in {"move_relative", "move_absolute"}

Running == pc \notin {"exited", "fatal"}

\* The code the process exits with: 1 from main's `except Exception`, 0 when
\* the command loop was left by exit; -1 while the program runs.
ExitCode == IF pc = "fatal" THEN 1 ELSE IF pc = "exited" THEN 0 ELSE -1

\* The main thread is inside make_dots or approach.
RoutinePcs ==
    {"z_approach", "dispense", "z_retreat", "x_advance", "x_home", "approach"}

\* main's loop: input() returns `line` and handle_command runs it up to its
\* first blocking call.
Dispatch(line) ==
    /\ pc = "prompt"
    /\ ~Blocked
    /\ accepted < MaxCmds
    /\ LET o == handle_command(line, stages)
       IN /\ accepted' = accepted + 1
          /\ stages' = o.stages
          /\ calls' = o.calls
          /\ motion' = Drive(motion, o.calls, "handle_command")
          /\ waiting' = WaitsOn(o.calls)
          /\ pc' = IF o.exc # "none" THEN "fatal"
                   ELSE IF ~o.ret THEN "exited" ELSE o.goto
          /\ frame' = o.frame
          /\ last' = Cmd(Verb(line), stages, line, o.exc)
    /\ esc' = NoEsc
    /\ UNCHANGED <<nops, hotkey, nesc>>

CmdExit == \E line \in Lines : Verb(line) = "exit" /\ Dispatch(line)
CmdHelp == \E line \in Lines : Verb(line) = "help" /\ Dispatch(line)
CmdMove == \E line \in Lines : Verb(line) = "move" /\ Dispatch(line)
CmdHome == \E line \in Lines : Verb(line) = "home" /\ Dispatch(line)
CmdSethome == \E line \in Lines : Verb(line) = "sethome" /\ Dispatch(line)
CmdSpeed == \E line \in Lines : Verb(line) = "speed" /\ Dispatch(line)
CmdGetspeed == \E line \in Lines : Verb(line) = "getspeed" /\ Dispatch(line)
CmdSyringe == \E line \in Lines : Verb(line) = "syringe" /\ Dispatch(line)
CmdApproach == \E line \in Lines : Verb(line) = "approach" /\ Dispatch(line)
CmdMakedots == \E line \in Lines : Verb(line) = "makedots" /\ Dispatch(line)
CmdUnknown == \E line \in Lines : Verb(line) \notin Vocabulary /\ Dispatch(line)

\* Inside a routine the main thread calls a Device method (outcome `r`, on
\* stages[key]) and goes on at `goto` with locals `fr`; an exception of the
\* method ends the program through main's handler.
Step(r, key, owner, goto, fr) ==
    /\ ~Blocked
    /\ IF r.exc # "none"
       THEN /\ pc' = "fatal"
            /\ last' = [last EXCEPT !.exc = r.exc]
            /\ UNCHANGED <<stages, calls, motion, waiting, frame>>
       ELSE /\ stages' = [stages EXCEPT ![key] = r.dev]
            /\ calls' = calls \o r.calls
            /\ motion' = Drive(motion, r.calls, owner)
            /\ waiting' = WaitsOn(r.calls)
            /\ pc' = goto
            /\ frame' = fr
            /\ UNCHANGED last
    /\ UNCHANGED <<nops, accepted, hotkey, esc, nesc>>

\* make_dots, line 283: stage_z.move_rel(2, wait=True)
DotsApproach ==
    /\ pc = "z_approach"
    /\ Step(move_rel(stages["stage_z"], ZApproach, TRUE), "stage_z", "make_dots",
            "dispense", frame)

\* line 284: syringe.syringe_dispense(dispense_amount, wait=True)
DotsDispense ==
    /\ pc = "dispense"
    /\ Step(syringe_dispense(stages["stage_s"], frame.dispense_amount, TRUE),
            "stage_s", "make_dots", "z_retreat", frame)

\* Mutant of DotsRetreat: the test of line 287 reads i < dots.
DotsRetreat_always_advances ==
    /\ pc = "z_retreat"
    /\ Step(move_rel(stages["stage_z"], -ZApproach, TRUE), "stage_z",
            "make_dots", "x_advance", frame)

\* line 286: stage_z.move_rel(-2, wait=True), then the test of line 287
DotsRetreat ==
    /\ pc = "z_retreat"
    /\ IF frame.i < frame.dots - 1
       THEN Step(move_rel(stages["stage_z"], -ZApproach, TRUE), "stage_z",
                 "make_dots", "x_advance", frame)
       ELSE Step(move_rel(stages["stage_z"], -ZApproach, TRUE), "stage_z",
                 "make_dots", LoopHead(frame.i + 1, frame.dots),
                 [frame EXCEPT !.i = frame.i + 1])

\* line 288: stage_x.move_rel(spacing, wait=True), then the next iteration
DotsAdvance ==
    /\ pc = "x_advance"
    /\ Step(move_rel(stages["stage_x"], frame.spacing, TRUE), "stage_x",
            "make_dots", LoopHead(frame.i + 1, frame.dots),
            [frame EXCEPT !.i = frame.i + 1])

\* line 290: stage_x.home(); make_dots and handle_command return
DotsHome ==
    /\ pc = "x_home"
    /\ Step(home(stages["stage_x"]), "stage_x", "make_dots", "prompt", frame)

\* approach, line 323: keyboard.read_event() returns `ev`, the next event
\* of the at most MaxKeys the operator produces.
ReadEvent(ev) == [frame EXCEPT !.keys = frame.keys + 1, !.event = ev]

\* case "w": stage.move_rel(step_mm, wait=True)
ApproachForward ==
    /\ pc = "approach"
    /\ frame.keys < MaxKeys
    /\ \E ev \in KeyEvents :
          /\ ev.event_type = "down"
          /\ ev.name = "w"
          /\ Step(move_rel(stages[frame.stage], frame.step_mm, TRUE), frame.stage,
                  "approach", "approach", ReadEvent(ev))

\* Mutant of ApproachBackward: the backward key moves forward.
ApproachBackward_moves_forward ==
    /\ pc = "approach"
    /\ frame.keys < MaxKeys
    /\ \E ev \in KeyEvents :
          /\ ev.event_type = "down"
          /\ ev.name = "s"
          /\ Step(move_rel(stages[frame.stage], frame.step_mm, TRUE), frame.stage,
                  "approach", "approach", ReadEvent(ev))

\* case "s": stage.move_rel(-step_mm, wait=True)
ApproachBackward ==
    /\ pc = "approach"
    /\ frame.keys < MaxKeys
    /\ \E ev \in KeyEvents :
          /\ ev.event_type = "down"
          /\ ev.name = "s"
          /\ Step(move_rel(stages[frame.stage], -frame.step_mm, TRUE), frame.stage,
                  "approach", "approach", ReadEvent(ev))

\* case "x": break; the buffered keystrokes are drained and approach returns
ApproachExit ==
    /\ pc = "approach"
    /\ ~Blocked
    /\ frame.keys < MaxKeys
    /\ \E ev \in KeyEvents :
          /\ ev.event_type = "down"
          /\ ev.name = "x"
          /\ frame' = ReadEvent(ev)
    /\ pc' = "prompt"
    /\ UNCHANGED <<stages, calls, last, nops, waiting, motion, accepted, hotkey,
                   esc, nesc>>

\* an event that is not a key-down (line 325), or a key no case matches
ApproachIgnore ==
    /\ pc = "approach"
    /\ ~Blocked
    /\ frame.keys < MaxKeys
    /\ \E ev \in KeyEvents :
          /\ ev.event_type # "down" \/ ev.name \notin {"w", "s", "x"}
          /\ frame' = ReadEvent(ev)
    /\ pc' = "approach"
    /\ UNCHANGED <<stages, calls, last, nops, waiting, motion, accepted, hotkey,
                   esc, nesc>>

\* `home all`: the next dev.home() of the loop over stages.values(). The
\* loop visits the devices not visited yet in the registry's insertion
\* order, which discovery decides: any of them can be the next.
HomeAllNext ==
    /\ pc = "home_all"
    /\ \E a \in frame.todo :
          Step(home(stages[a]), a, "handle_command",
               IF frame.todo = {a} THEN "prompt" ELSE "home_all",
               [frame EXCEPT !.todo = frame.todo \ {a}])

\* The hardware reports axis `a` idle: its motion is over, and a blocking
\* call waiting on it returns.
Idle ==
    \E a \in Labels :
        /\ motion[a] # "idle"
        /\ motion' = [motion EXCEPT ![a] = "idle"]
        /\ waiting' = IF waiting = a THEN "none" ELSE waiting
        /\ UNCHANGED <<stages, calls, last, nops, pc, frame, accepted, hotkey,
                       esc, nesc>>

\* ESC is pressed: the hotkey's thread runs on_escape.
EscPressed ==
    /\ Running
    /\ hotkey # "none"
    /\ nesc < MaxEsc
    /\ LET r == emergency_stop(hotkey)
       IN /\ calls' = calls \o r.calls
          /\ motion' = Drive(motion, r.calls, "emergency_stop")
          /\ waiting' = IF r.exc = "none" THEN "none" ELSE waiting
          /\ esc' = [triggered |-> TRUE,
                     blocked |-> esc.blocked \/ BlockedInMove,
                     stopped |-> (esc.triggered => esc.stopped) /\ r.exc = "none",
                     routine |-> esc.routine \/ pc \in RoutinePcs]
    /\ nesc' = nesc + 1
    /\ UNCHANGED <<stages, last, nops, pc, frame, accepted, hotkey>>

Next ==
    \/ CmdExit
    \/ CmdHelp
    \/ CmdMove
    \/ CmdHome
    \/ CmdSethome
    \/ CmdSpeed
    \/ CmdGetspeed
    \/ CmdSyringe
    \/ CmdApproach
    \/ CmdMakedots
    \/ CmdUnknown
    \/ DotsApproach
    \/ DotsDispense
    \/ DotsRetreat
    \/ DotsAdvance
    \/ DotsHome
    \/ ApproachForward
    \/ ApproachBackward
    \/ ApproachExit
    \/ ApproachIgnore
    \/ HomeAllNext
    \/ Idle
    \/ EscPressed

Spec == Init /\ [][Next]_vars

\* ------------------------------------------------------------ main's startup

\* The names the body of class Device binds: its methods. The attributes
\* label, axis, connection, min_pos, max_pos, speed_profiles and
\* active_profile are set on the instance by __init__.
DeviceClassAttributes ==
    {"__init__", "default_profile", "set_profile", "use_profile", "set_speed",
     "get_speed", "check_limit", "move_to", "move_abs", "move_rel", "home",
     "stop", "set_home_here", "is_syringe", "syringe_dispense",
     "syringe_retract"}

\* Mutant of DeviceLimitsLine: the line prints the limits of the instance.
DeviceLimitsLine_of_instance == "none"

\* Line 502: the f-string reads Device.max_pos and Device.min_pos, attributes
\* of the class; the exception it raises ("none" if it prints).
DeviceLimitsLine ==
    IF {"max_pos", "min_pos"} \subseteq DeviceClassAttributes
    THEN "none"
    ELSE "AttributeError: type object Device has no attribute max_pos"

\* Mutant of missing: no label is reported missing.
missing_none(st) == {}

\* Line 505: the labels of SERIAL_TO_LABEL that are not in the registry.
missing(st) ==
    {SERIAL_TO_LABEL[n] : n \in DOMAIN SERIAL_TO_LABEL} \ DOMAIN st

\* main is entered: nothing is registered, and discovery will find the
\* devices frame.devices, any set of known and unknown serial numbers.
InitMain ==
    /\ stages = <<>>
    /\ calls = <<>>
    /\ last = Op("main", "none", <<>>, "", 0, "none")
    /\ nops = 0
    /\ pc = "start"
    /\ frame \in {[NoFrame EXCEPT !.fn = "main", !.devices = D, !.todo = D] :
                    D \in SUBSET (DOMAIN SERIAL_TO_LABEL \cup OtherSerials)}
    /\ waiting = "none"
    /\ motion = [l \in Labels |-> "idle"]
    /\ accepted = 0
    /\ hotkey = "none"
    /\ esc = NoEsc
    /\ nesc = 0

\* An exception reaches main's `except Exception`: "Fatal error", exit(1).
Fatal(exc) ==
    /\ pc' = "fatal"
    /\ last' = [last EXCEPT !.exc = exc]

\* connect_auto: the first port with devices, or RuntimeError when no port
\* has any; then conn.detect_devices() and the empty registry.
ConnectAuto ==
    /\ pc = "start"
    /\ IF frame.devices = {}
       THEN Fatal("RuntimeError: no devices detected")
       ELSE pc' = "label" /\ UNCHANGED last
    /\ UNCHANGED <<stages, calls, nops, frame, waiting, motion, accepted,
                   hotkey, esc, nesc>>

\* The labelling loop on a device whose serial number is known: the Device
\* is constructed and registered, then line 502 is executed.
LabelDevice ==
    /\ pc = "label"
    /\ \E serial \in frame.todo :
          /\ serial \in DOMAIN SERIAL_TO_LABEL
          /\ LET label == SERIAL_TO_LABEL[serial]
             IN stages' = (label :> DeviceInit(label)) @@ stages
          /\ frame' = [frame EXCEPT !.todo = frame.todo \ {serial}]
          /\ IF DeviceLimitsLine # "none"
             THEN Fatal(DeviceLimitsLine)
             ELSE UNCHANGED <<pc, last>>
    /\ UNCHANGED <<calls, nops, waiting, motion, accepted, hotkey, esc, nesc>>

\* The labelling loop on a device whose serial number is not in the table.
SkipDevice ==
    /\ pc = "label"
    /\ \E serial \in frame.todo :
          /\ serial \notin DOMAIN SERIAL_TO_LABEL
          /\ frame' = [frame EXCEPT !.todo = frame.todo \ {serial}]
    /\ UNCHANGED <<stages, calls, last, nops, pc, waiting, motion, accepted,
                   hotkey, esc, nesc>>

\* After the loop: the check for missing devices, then the hotkey, the help
\* text and conn.home_all(wait_until_idle=True), which returns when every
\* axis is idle; the command loop is entered.
FinishStartup ==
    /\ pc = "label"
    /\ frame.todo = {}
    /\ IF missing(stages) # {}
       THEN /\ Fatal("RuntimeError: missing devices")
            /\ UNCHANGED <<calls, hotkey, frame>>
       ELSE /\ hotkey' = setup_escape_listener(ListenerArgument)
            /\ calls' = <<Call("all", "home_all", 0, "none", TRUE, 0, 0, "none")>>
            /\ pc' = "prompt"
            /\ frame' = [NoFrame EXCEPT !.devices = frame.devices]
            /\ UNCHANGED last
    /\ UNCHANGED <<stages, nops, waiting, motion, accepted, esc, nesc>>

NextMain ==
    \/ ConnectAuto
    \/ LabelDevice
    \/ SkipDevice
    \/ FinishStartup

SpecMain == InitMain /\ [][NextMain]_vars

\* ------------------------------------------------- claims about the Device

NotASyringeError == "RuntimeError: not a syringe device"
ProfileNotFound == "ValueError: speed profile not found"

\* The profile dict a device's active_profile refers to.
Active(dev) == dev.heap[dev.active_profile]

\* The profile dicts that are entries of a device's mapping.
Entries(dev) == {dev.speed_profiles[n] : n \in DOMAIN dev.speed_profiles}

\* C3: on every axis, after any sequence of Device methods, active_profile is
\* not None (it refers to a live profile dict) and the mapping has a profile
\* named "default".
C3_ActiveProfileDefined ==
    \A a \in Labels :
        /\ stages[a].active_profile # None
        /\ stages[a].active_profile \in DOMAIN stages[a].heap
        /\ "default" \in DOMAIN stages[a].speed_profiles

\* C3 is exercised: profiles were defined and selected, and a motion ran.
C3_Witness ==
    /\ nops = MaxOps
    /\ last.op \in {"move_rel", "move_abs", "get_speed"}
    /\ \E a \in Labels :
          /\ "fast" \in DOMAIN stages[a].speed_profiles
          /\ stages[a].active_profile = stages[a].speed_profiles["fast"]

\* C4 as claimed: on every axis active_profile refers to a profile dict that
\* is an entry of that axis's own mapping.
C4_ActiveProfileInMapping ==
    \A a \in Labels : stages[a].active_profile \in Entries(stages[a])

\* C5: right after set_speed(value) the active profile has velocity value,
\* acceleration 0 and the velocity unit, whatever it held before.
C5_SetSpeedResets ==
    last.op = "set_speed" =>
        /\ last.exc = "none"
        /\ Active(stages[last.axis]) =
              [vel |-> last.arg, acc |-> 0,
               unit |-> VELOCITY_MILLIMETRES_PER_SECOND]

\* set_speed ran on a profile that had a non-zero acceleration, a length unit
\* and another velocity.
C5_Witness ==
    /\ last.op = "set_speed"
    /\ Active(last.pre).acc # 0
    /\ Active(last.pre).unit = LENGTH_MILLIMETRES
    /\ Active(last.pre).vel # last.arg
    /\ Active(stages[last.axis]).vel = last.arg

\* C6: use_profile with a name that is not in the mapping raises the
\* not-found error and leaves the device (active profile, mapping, profile
\* dicts) as it was.
C6_UseMissingProfile ==
    (last.op = "use_profile" /\ last.name \notin DOMAIN last.pre.speed_profiles) =>
        /\ last.exc = ProfileNotFound
        /\ stages[last.axis] = last.pre

\* use_profile of an unknown name was called while a profile other than the
\* default one was active.
C6_Witness ==
    /\ last.op = "use_profile"
    /\ last.name \notin DOMAIN last.pre.speed_profiles
    /\ last.exc = ProfileNotFound
    /\ "fast" \in DOMAIN stages[last.axis].speed_profiles
    /\ stages[last.axis].active_profile = stages[last.axis].speed_profiles["fast"]

\* A device as it would be with no profile active.
Deactivated(dev) == [dev EXCEPT !.active_profile = None]

\* C7: syringe_dispense and syringe_retract on an axis other than stage_s
\* raise the not-a-syringe error and issue no hardware call; the device-type
\* check precedes the profile check, so the error is the same one when no
\* profile is active.
C7_NotASyringe ==
    /\ (last.op \in {"syringe_dispense", "syringe_retract"}
            /\ last.axis # "stage_s") =>
          (last.exc = NotASyringeError /\ calls = <<>>
             /\ stages[last.axis] = last.pre)
    /\ \A a \in Labels \ {"stage_s"}, mm \in Amounts, w \in BOOLEAN :
          /\ syringe_dispense(Deactivated(stages[a]), mm, w).exc = NotASyringeError
          /\ syringe_dispense(Deactivated(stages[a]), mm, w).calls = <<>>
          /\ syringe_retract(Deactivated(stages[a]), mm, w).exc = NotASyringeError
          /\ syringe_retract(Deactivated(stages[a]), mm, w).calls = <<>>

\* Both syringe operations were refused on a non-dispensing axis.
C7_Witness ==
    /\ last.op = "syringe_retract"
    /\ last.axis = "stage_z"
    /\ last.exc = NotASyringeError
    /\ last.pre.active_profile # last.pre.speed_profiles["default"]

\* C8: syringe_retract(amount) on stage_s issues the velocity call and then
\* one relative move whose displacement is the amount with its sign forced
\* negative: never positive, and of the amount's magnitude.
C8_RetractNonPositive ==
    (last.op = "syringe_retract" /\ last.axis = "stage_s") =>
        /\ last.exc = "none"
        /\ Len(calls) = 2
        /\ calls[1].fn = "move_velocity"
        /\ calls[2].fn = "move_relative"
        /\ calls[2].axis = "stage_s"
        /\ calls[2].arg <= 0
        /\ calls[2].arg \in {last.arg, -last.arg}

\* A retract with a negative amount was issued, and moved in the negative
\* direction.
C8_Witness ==
    /\ last.op = "syringe_retract"
    /\ last.axis = "stage_s"
    /\ last.arg < 0
    /\ Len(calls) = 2
    /\ calls[2].arg = last.arg

\* The Device methods that issue a positional move.
PositionalOps == {"move_rel", "move_abs", "syringe_dispense", "syringe_retract"}

\* C16: a positional motion (move_rel, move_abs, syringe_dispense,
\* syringe_retract) that is carried out issues two calls on its axis: first
\* the velocity call, with the velocity, acceleration and unit of the
\* profile that was active when the method was called, then the positional
\* move, with nothing in between; the velocity it carries is the one
\* get_speed reports for the axis. It is refused only for a syringe
\* operation on an axis that is not the syringe.
C16_VelocityThenMove ==
    /\ (last.op \in PositionalOps /\ last.exc = "none") =>
          /\ Len(calls) = 2
          /\ calls[1].fn = "move_velocity"
          /\ calls[1].axis = last.axis
          /\ calls[1].vel = Active(last.pre).vel
          /\ calls[1].acc = Active(last.pre).acc
          /\ calls[1].vunit = Active(last.pre).unit
          /\ calls[1].vel = get_speed(stages[last.axis]).ret
          /\ calls[2].fn \in {"move_relative", "move_absolute"}
          /\ calls[2].axis = last.axis
          /\ calls[2].fn = "move_absolute" <=> last.op = "move_abs"
    /\ (last.op \in PositionalOps /\ last.exc # "none") =>
          /\ last.op \in {"syringe_dispense", "syringe_retract"}
          /\ last.axis # "stage_s"
          /\ calls = <<>>
    /\ \A k \in 1..Len(calls) :
          calls[k].fn \in {"move_relative", "move_absolute"} =>
              /\ k > 1
              /\ calls[k - 1].fn = "move_velocity"
              /\ calls[k - 1].axis = calls[k].axis

\* A relative move ran on an axis whose active profile is "fast", and its
\* velocity call carried that profile's velocity, acceleration and unit.
C16_Witness ==
    /\ last.op = "move_rel"
    /\ nops = MaxOps
    /\ "fast" \in DOMAIN last.pre.speed_profiles
    /\ last.pre.active_profile = last.pre.speed_profiles["fast"]
    /\ Len(calls) = 2
    /\ calls[1].vel \in DefVels
    /\ calls[1].acc \in DefAccs
    /\ calls[1].vunit = LENGTH_MILLIMETRES
    /\ calls[2].fn = "move_relative"

\* The Device methods that write profile state.
ProfileOps == {"set_speed", "set_profile", "use_profile"}

\* `line`, run by handle_command on the registry `st`, is carried out, sets
\* the speed `v` on the axis `key` as set_speed does, and leaves every other
\* axis of the registry as it was.
SetsSpeedOf(line, st, key, v) ==
    LET o == handle_command(line, st)
    IN /\ o.exc = "none"
       /\ o.stages[key] = set_speed(st[key], v).dev
       /\ \A b \in Labels \ {key} : o.stages[b] = st[b]

C1_StopAllBeforeNextCommand ==
    [][accepted' # accepted => (esc.blocked => esc.stopped)]_vars

\* C2 as claimed: once Emergency-Stop was triggered inside make_dots or
\* approach, the routine issues no further hardware call.
C2_NoStepAfterEmergencyStop ==
    [][(esc.routine /\ pc \in RoutinePcs) =>
          \A k \in 1..Len(calls') : k > Len(calls) => calls'[k].fn = "stop_all"]_vars

\* The positional calls among `issued`: all but the velocity calls that
\* precede each move.
IsPositional(c) == c.fn # "move_velocity"
Positional(issued) == SelectSeq(issued, IsPositional)

\* What the claim says of one step: the axis, the call, the displacement,
\* its unit, and that it blocks.
StepOf(c) ==
    [axis |-> c.axis, fn |-> c.fn, arg |-> c.arg, unit |-> c.unit, wait |-> c.wait]
StepsOf(issued) == [k \in 1..Len(issued) |-> StepOf(issued[k])]

\* The steps C9 states for dots i .. n-1, and the final x home.
RECURSIVE ExpectedDots(_, _, _, _)
ExpectedDots(i, n, spacing, amount) ==
    IF i >= n
    THEN <<[axis |-> "stage_x", fn |-> "home", arg |-> 0, unit |-> "none",
            wait |-> TRUE]>>
    ELSE <<[axis |-> "stage_z", fn |-> "move_relative", arg |-> 20,
            unit |-> LENGTH_MILLIMETRES, wait |-> TRUE],
           [axis |-> "stage_s", fn |-> "move_relative", arg |-> amount,
            unit |-> LENGTH_MICROMETRES, wait |-> TRUE],
           [axis |-> "stage_z", fn |-> "move_relative", arg |-> -20,
            unit |-> LENGTH_MILLIMETRES, wait |-> TRUE]>>
         \o (IF i < n - 1
             THEN <<[axis |-> "stage_x", fn |-> "move_relative", arg |-> spacing,
                     unit |-> LENGTH_MILLIMETRES, wait |-> TRUE]>>
             ELSE <<>>)
         \o ExpectedDots(i + 1, n, spacing, amount)

IsPrefix(s, t) == Len(s) <= Len(t) /\ \A k \in 1..Len(s) : s[k] = t[k]

\* How many of the steps `steps` are call `fn` on `axis` with a displacement
\* in `args`.
Count(steps, axis, fn, args) ==
    Cardinality({k \in 1..Len(steps) :
                    steps[k].axis = axis /\ steps[k].fn = fn /\ steps[k].arg \in args})

C10_HomeAllOnce ==
    frame.fn = "home_all" =>
        /\ \A k \in 1..Len(calls) : calls[k].fn = "home"
        /\ \A a \in Labels :
             Count(calls, a, "home", {0}) = (IF a \in frame.todo THEN 0 ELSE 1)
        /\ pc = "prompt" =>
             (Len(calls) = Cardinality(Labels)
                /\ \A a \in Labels : Count(calls, a, "home", {0}) = 1)
        /\ pc = "home_all" => frame.todo # {}

\* `home all` has finished, having visited the syringe first and x last.
C10_Witness ==
    /\ frame.fn = "home_all"
    /\ pc = "prompt"
    /\ ~Blocked
    /\ Len(calls) = 4
    /\ calls[1].axis = "stage_s"
    /\ calls[4].axis = "stage_x"

\* The words of the line the command loop accepted last.
LastWords == split(last.line)

\* The calls of `issued` that are call `fn`.
CallsOf(issued, fn) == {k \in 1..Len(issued) : issued[k].fn = fn}

C12_SethomeMarksHome ==
    (last.op = "sethome" /\ last.exc = "none") =>
        /\ Len(calls) = 1
        /\ calls[1].fn = "set_home"
        /\ calls[1].axis = StageKey(LastWords[2])
        /\ \A k \in 1..Len(calls) : ~Moves(calls[k])

\* C13 as claimed: a line with an unknown verb, or an empty line, issues no
\* hardware call, leaves the registry as it was and returns to the prompt;
\* and the command loop has ended only if the last line's verb is exit.
C13_ExitSoleTerminal ==
    /\ (accepted > 0 /\ last.op \notin Vocabulary) =>
          (calls = <<>> /\ stages = last.pre /\ pc = "prompt"
             /\ last.exc = "none")
    /\ ~Running => last.op = "exit"

\* C13, the part that holds: unknown verbs and empty lines do nothing and
\* the loop goes on, and handle_command returns False for exit alone.
C13_UnknownVerbContinues ==
    /\ (accepted > 0 /\ last.op \notin Vocabulary) =>
          (calls = <<>> /\ stages = last.pre /\ pc = "prompt"
             /\ last.exc = "none")
    /\ pc = "exited" <=> (accepted > 0 /\ last.op = "exit")

\* The calls a step appends to the call log.
NewCalls == SubSeq(calls', Len(calls) + 1, Len(calls'))

\* The one blocking relative move of `mm` on `axis`, as a step of C9's kind.
JogStep(axis, mm) ==
    <<[axis |-> axis, fn |-> "move_relative", arg |-> mm,
       unit |-> LENGTH_MILLIMETRES, wait |-> TRUE]>>

\* C15: in approach(stage, step) every event read is handled so: a key-down
\* of w issues one blocking relative move of +step on the bound axis, a
\* key-down of s one of -step, a key-down of x ends the loop, any other
\* event issues nothing; an event is read only when the move before it has
\* finished, none is read once the loop has ended, and no call of the
\* routine is on another axis.
C15_ApproachKeys ==
    [][(frame.fn = "approach" /\ accepted' = accepted) =>
         /\ \A k \in 1..Len(NewCalls) :
                NewCalls[k].axis = frame'.stage \/ NewCalls[k].fn = "stop_all"
         /\ IF frame'.keys # frame.keys
            THEN LET ev == frame'.event
                     moves == StepsOf(Positional(NewCalls))
                 IN /\ pc = "approach"
                    /\ ~Blocked
                    /\ frame'.keys = frame.keys + 1
                    /\ frame'.stage = frame.stage
                    /\ frame'.step_mm = frame.step_mm
                    /\ IF ev.event_type = "down" /\ ev.name = "w"
                       THEN moves = JogStep(frame.stage, frame.step_mm)
                            /\ pc' = "approach"
                       ELSE IF ev.event_type = "down" /\ ev.name = "s"
                       THEN moves = JogStep(frame.stage, -frame.step_mm)
                            /\ pc' = "approach"
                       ELSE IF ev.event_type = "down" /\ ev.name = "x"
                       THEN NewCalls = <<>> /\ pc' = "prompt"
                       ELSE NewCalls = <<>> /\ pc' = "approach"
            ELSE Positional(NewCalls) = <<>> /\ frame' = frame]_vars

\* approach on z has moved backward on a key-down of s and has ended on the
\* key-down of x that followed.
C15_Witness ==
    /\ frame.fn = "approach"
    /\ frame.stage = "stage_z"
    /\ pc = "prompt"
    /\ frame.keys = 2
    /\ frame.event = [event_type |-> "down", name |-> "x"]
    /\ StepsOf(Positional(calls)) = JogStep("stage_z", -frame.step_mm)
    /\ ~Blocked

\* The positions of the numeric arguments in the words `p` of a command, by
\* the shape of its verb.
NumericArgs(p) ==
    IF p = <<>> THEN {}
    ELSE CASE lower(p[1]) = "move" /\ Len(p) >= 3 ->
                IF p[2] = "abs" THEN {4} ELSE {3}
           [] lower(p[1]) = "speed" -> {3}
           [] lower(p[1]) = "syringe" /\ Len(p) >= 3
                /\ lower(p[2]) \in {"dispense", "retract", "speed"} -> {3}
           [] lower(p[1]) = "approach" -> {3}
           [] lower(p[1]) = "makedots" -> {2, 3, 4}
           [] OTHER -> {}

\* A numeric argument of the command is there and is not a number (for the
\* count of makedots: not an integer).
Malformed(p) ==
    \E k \in NumericArgs(p) :
        /\ k <= Len(p)
        /\ IF lower(p[1]) = "makedots" /\ k = 2
           THEN p[k] \notin DOMAIN IntTable
           ELSE p[k] \notin DOMAIN FloatTable

\* C17: a command with a malformed numeric argument raises an error that
\* nothing catches before main's top-level handler, which exits with code
\* 1; the command has issued no hardware call and has left every axis (its
\* profiles, active profile and limits) as it was.
C17_MalformedNumberIsFatal ==
    (accepted > 0 /\ Malformed(LastWords)) =>
        /\ last.exc # "none"
        /\ pc = "fatal"
        /\ ExitCode = 1
        /\ calls = <<>>
        /\ stages = last.pre
        /\ frame = NoFrame

\* A malformed dot amount of makedots ended the program while an earlier
\* move was still in flight.
C17_Witness ==
    /\ accepted = 2
    /\ last.line = <<"makedots", "1", "0.5", "1,5">>
    /\ last.exc = "ValueError"
    /\ pc = "fatal"
    /\ \E a \in Labels : motion[a] = "handle_command"

\* The positional moves among `issued`.
IsMove(c) == c.fn \in {"move_relative", "move_absolute"}

\* C20: the moves that the dispatcher's move, move abs, syringe dispense and
\* syringe retract commands issue do not wait: the command is back at the
\* prompt, not inside a blocking call, with its axis possibly still in
\* motion, and the loop can accept the next line, another move on the same
\* axis included; a positional move that waits is issued by make_dots or
\* approach only.
C20_DispatcherMovesDoNotBlock ==
    /\ (last.op \in {"move", "syringe"} /\ last.exc = "none"
          /\ \E k \in 1..Len(calls) : IsMove(calls[k])) =>
          /\ \A k \in 1..Len(calls) : ~calls[k].wait
          /\ pc = "prompt"
          /\ waiting = "none"
          /\ accepted < MaxCmds =>
                \A k \in 1..Len(calls) :
                    IsMove(calls[k]) =>
                        \E w \in AxisWords :
                            /\ StageKey(w) = calls[k].axis
                            /\ ENABLED Dispatch(<<"move", w, "1">>)
    /\ \A k \in 1..Len(calls) :
          (IsMove(calls[k]) /\ calls[k].wait) =>
              frame.fn \in {"make_dots", "approach"}

\* `move x 1` has returned to the prompt with x still in motion, and the
\* loop can accept `move x -1`.
C20_Witness ==
    /\ accepted = 1
    /\ last.line = <<"move", "x", "1">>
    /\ pc = "prompt"
    /\ \E k \in 1..Len(calls) : IsMove(calls[k]) /\ calls[k].axis = "stage_x"
    /\ motion["stage_x"] = "handle_command"
    /\ ENABLED Dispatch(<<"move", "x", "-1">>)

\* The labels of the devices discovery has found.
Found ==
    {SERIAL_TO_LABEL[n] : n \in frame.devices \cap DOMAIN SERIAL_TO_LABEL}

\* C14: when discovery finds fewer than the four expected axes, startup
\* never gets to the hotkey's registration, the homing or the command loop:
\* no listener is registered, no hardware call is issued, no line is
\* accepted; startup always has a next step until it has ended, and it ends
\* with exit code 1.
C14_MissingDeviceIsFatal ==
    Found # Labels =>
        /\ pc \in {"start", "label", "fatal"}
        /\ hotkey = "none"
        /\ calls = <<>>
        /\ accepted = 0
        /\ \A a \in Labels : motion[a] = "idle"
        /\ pc # "fatal" => ENABLED NextMain
        /\ pc = "fatal" => (ExitCode = 1 /\ last.exc # "none")

\* Discovery found devices but none of the expected ones, and the check
\* for missing devices has ended the program.
C14_Witness ==
    /\ frame.devices # {}
    /\ Found = {}
    /\ frame.todo = {}
    /\ pc = "fatal"
    /\ last.exc = "RuntimeError: missing devices"
    /\ stages = <<>>
    /\ hotkey = "none"

\* C18 as claimed: when discovery finds the four expected devices, startup
\* is not fatal, and the command loop is reached with the four axes in the
\* registry, the listener registered and the homing issued.
C18_StartupCompletes ==
    Found = Labels =>
        /\ pc # "fatal"
        /\ pc = "prompt" =>
              /\ DOMAIN stages = Labels
              /\ hotkey # "none"
              /\ \E k \in 1..Len(calls) : calls[k].fn = "home_all"

====
